---- MODULE Spec2Model ----
(***************************************************************************)
(* SHA-256 (hash/sha256) and the 256-bit unsigned integer U256             *)
(* (primitives) of the Cryptography crate.                                 *)
(*                                                                         *)
(* A u32 is a bit vector [0..31 -> {0,1}], bit 0 the least significant,    *)
(* because TLC's integers stop at 2^31.  A u8 is an integer in 0..255.     *)
(* Arrays keep the source's 0-based indices: a U256 is [0..31 -> u8] with  *)
(* byte 0 the most significant, a block is [0..63 -> u8].                  *)
(***************************************************************************)
EXTENDS Integers, Sequences, FiniteSets, TLC

\* ------------------------------------------------------------------ bounds

\* Inputs of sha256 have every length 0..MaxLen.
MaxLen == 120

\* Shift amounts are every value 0..MaxAmount, and some larger ones.
MaxAmount == 260

\* U256 operands are some corner values and Pattern(1)..Pattern(MaxPattern).
MaxPattern == 3

\* ------------------------------------------------------- machine integers

P2 == <<1, 2, 4, 8, 16, 32, 64, 128, 256, 512, 1024, 2048, 4096, 8192,
        16384, 32768, 65536, 131072, 262144, 524288, 1048576, 2097152,
        4194304, 8388608, 16777216, 33554432, 67108864, 134217728,
        268435456, 536870912, 1073741824>>

Pow2(n) == P2[n + 1]

\* Bit k of a non-negative integer below 2^31.
BitOf(v, k) == IF k <= 30 THEN (v \div Pow2(k)) % 2 ELSE 0

RECURSIVE BitsToNat(_, _, _)
\* The number held in the n bits of x from bit lo upwards.
BitsToNat(x, lo, n) ==
    IF n = 0 THEN 0 ELSE x[lo] + 2 * BitsToNat(x, lo + 1, n - 1)

\* The u32 with high half hi and low half lo (each below 2^16).
Word(hi, lo) ==
    [k \in 0..31 |-> IF k < 16 THEN BitOf(lo, k) ELSE BitOf(hi, k - 16)]

rotate_right(x, n) == [k \in 0..31 |-> x[(k + n) % 32]]

shr32(x, n) == [k \in 0..31 |-> IF k + n < 32 THEN x[k + n] ELSE 0]

xor(x, y) == [k \in 0..31 |-> (x[k] + y[k]) % 2]

and(x, y) == [k \in 0..31 |-> x[k] * y[k]]

not(x) == [k \in 0..31 |-> 1 - x[k]]

\* u32::wrapping_add: the sum modulo 2^32, by 16-bit halves.
wrapping_add(x, y) ==
    LET lo == BitsToNat(x, 0, 16) + BitsToNat(y, 0, 16)
        hi == BitsToNat(x, 16, 16) + BitsToNat(y, 16, 16) + lo \div 65536
    IN  Word(hi % 65536, lo % 65536)

\* u32::from_be(read_unaligned(p)): the four bytes at p, first byte highest.
from_be_bytes(b0, b1, b2, b3) ==
    [k \in 0..31 |->
        IF k < 8 THEN BitOf(b3, k)
        ELSE IF k < 16 THEN BitOf(b2, k - 8)
        ELSE IF k < 24 THEN BitOf(b1, k - 16)
        ELSE BitOf(b0, k - 24)]

\* u32::to_be_bytes: byte j of the word, byte 0 the most significant.
to_be_byte(x, j) == BitsToNat(x, 8 * (3 - j), 8)

\* --------------------------------------------------------------- constants

H256_INIT ==
    [j \in 0..7 |->
        << Word(\h6A09, \hE667), Word(\hBB67, \hAE85), Word(\h3C6E, \hF372),
           Word(\hA54F, \hF53A), Word(\h510E, \h527F), Word(\h9B05, \h688C),
           Word(\h1F83, \hD9AB), Word(\h5BE0, \hCD19) >>[j + 1]]

K256 ==
    [j \in 0..63 |->
        << Word(\h428A, \h2F98), Word(\h7137, \h4491), Word(\hB5C0, \hFBCF), Word(\hE9B5, \hDBA5),
           Word(\h3956, \hC25B), Word(\h59F1, \h11F1), Word(\h923F, \h82A4), Word(\hAB1C, \h5ED5),
           Word(\hD807, \hAA98), Word(\h1283, \h5B01), Word(\h2431, \h85BE), Word(\h550C, \h7DC3),
           Word(\h72BE, \h5D74), Word(\h80DE, \hB1FE), Word(\h9BDC, \h06A7), Word(\hC19B, \hF174),
           Word(\hE49B, \h69C1), Word(\hEFBE, \h4786), Word(\h0FC1, \h9DC6), Word(\h240C, \hA1CC),
           Word(\h2DE9, \h2C6F), Word(\h4A74, \h84AA), Word(\h5CB0, \hA9DC), Word(\h76F9, \h88DA),
           Word(\h983E, \h5152), Word(\hA831, \hC66D), Word(\hB003, \h27C8), Word(\hBF59, \h7FC7),
           Word(\hC6E0, \h0BF3), Word(\hD5A7, \h9147), Word(\h06CA, \h6351), Word(\h1429, \h2967),
           Word(\h27B7, \h0A85), Word(\h2E1B, \h2138), Word(\h4D2C, \h6DFC), Word(\h5338, \h0D13),
           Word(\h650A, \h7354), Word(\h766A, \h0ABB), Word(\h81C2, \hC92E), Word(\h9272, \h2C85),
           Word(\hA2BF, \hE8A1), Word(\hA81A, \h664B), Word(\hC24B, \h8B70), Word(\hC76C, \h51A3),
           Word(\hD192, \hE819), Word(\hD699, \h0624), Word(\hF40E, \h3585), Word(\h106A, \hA070),
           Word(\h19A4, \hC116), Word(\h1E37, \h6C08), Word(\h2748, \h774C), Word(\h34B0, \hBCB5),
           Word(\h391C, \h0CB3), Word(\h4ED8, \hAA4A), Word(\h5B9C, \hCA4F), Word(\h682E, \h6FF3),
           Word(\h748F, \h82EE), Word(\h78A5, \h636F), Word(\h84C8, \h7814), Word(\h8CC7, \h0208),
           Word(\h90BE, \hFFFA), Word(\hA450, \h6CEB), Word(\hBEF9, \hA3F7), Word(\hC671, \h78F2) >>[j + 1]]

\* ---------------------------------------------------- sha256/computations

small_sigma0(x) == xor(xor(rotate_right(x, 7), rotate_right(x, 18)), shr32(x, 3))

small_sigma1(x) == xor(xor(rotate_right(x, 17), rotate_right(x, 19)), shr32(x, 10))

big_sigma0(x) == xor(xor(rotate_right(x, 2), rotate_right(x, 13)), rotate_right(x, 22))

big_sigma1(x) == xor(xor(rotate_right(x, 6), rotate_right(x, 11)), rotate_right(x, 25))

\* ch without the complement of e.
ch_no_not(e, f, g) == xor(and(e, f), and(e, g))

ch(e, f, g) == xor(and(e, f), and(not(e), g))

maj(a, b, c) == xor(xor(and(a, b), and(a, c)), and(b, c))

\* x & 31 on an index: a mask one bit too wide.
and31(x) ==
    BitOf(x, 0) + 2 * BitOf(x, 1) + 4 * BitOf(x, 2) + 8 * BitOf(x, 3) + 16 * BitOf(x, 4)

\* x & 15 on an index.
and15(x) == BitOf(x, 0) + 2 * BitOf(x, 1) + 4 * BitOf(x, 2) + 8 * BitOf(x, 3)

\* The schedule step with the new word written one slot further.
schedule_next_slot(w, i) ==
    IF i >= 16
    THEN LET w16 == w[and15(i - 16)]
             w15 == w[and15(i - 15)]
             w7  == w[and15(i - 7)]
             w2  == w[and15(i - 2)]
             s0  == small_sigma0(w15)
             s1  == small_sigma1(w2)
         IN  [w EXCEPT ![and15(i + 1)] =
                 wrapping_add(wrapping_add(wrapping_add(w16, s0), w7), s1)]
    ELSE w

\* The schedule step of round i >= 16 of all_rounds: slot i & 15 of the
\* 16-word circular buffer takes w16 + s0 + w7 + s1.
schedule(w, i) ==
    IF i >= 16
    THEN LET w16 == w[and15(i - 16)]
             w15 == w[and15(i - 15)]
             w7  == w[and15(i - 7)]
             w2  == w[and15(i - 2)]
             s0  == small_sigma0(w15)
             s1  == small_sigma1(w2)
         IN  [w EXCEPT ![and15(i)] =
                 wrapping_add(wrapping_add(wrapping_add(w16, s0), w7), s1)]
    ELSE w

\* One iteration of the loop of all_rounds on the call record c (its fields
\* w, a..h and round): the schedule step, then the round.
round_body(c) ==
    LET i   == c.round
        w1  == schedule(c.w, i)
        wi  == w1[and15(i)]
        ki  == K256[i]
        bs1 == big_sigma1(c.e)
        chv == ch(c.e, c.f, c.g)
        bs0 == big_sigma0(c.a)
        mj  == maj(c.a, c.b, c.c)
        t1  == wrapping_add(wrapping_add(wrapping_add(wrapping_add(c.h, bs1), chv), wi), ki)
        t2  == wrapping_add(bs0, mj)
    IN  [c EXCEPT !.w = w1,
                  !.h = c.g, !.g = c.f, !.f = c.e, !.e = wrapping_add(c.d, t1),
                  !.d = c.c, !.c = c.b, !.b = c.a, !.a = wrapping_add(t1, t2),
                  !.round = i + 1]

\* The end of all_rounds: the working variables are added into the state.
add_back(c) ==
    [j \in 0..7 |->
        wrapping_add(c.state[j], <<c.a, c.b, c.c, c.d, c.e, c.f, c.g, c.h>>[j + 1])]

\* The working variables a..h loaded from the state, with the schedule w.
load(state, w) ==
    [w |-> w, a |-> state[0], b |-> state[1], c |-> state[2], d |-> state[3],
     e |-> state[4], f |-> state[5], g |-> state[6], h |-> state[7]]

\* state[j] = state[j].wrapping_add(a..h)
store(state, s) ==
    [j \in 0..7 |->
        wrapping_add(state[j], <<s.a, s.b, s.c, s.d, s.e, s.f, s.g, s.h>>[j + 1])]

\* R!(i) of the unrolled all_rounds (feature "speed") on the working
\* variables and the circular buffer s.
R(s, i) ==
    LET w1  == IF i >= 16
               THEN LET w16 == s.w[and15(i - 16)]
                        w15 == s.w[and15(i - 15)]
                        w7  == s.w[and15(i - 7)]
                        w2  == s.w[and15(i - 2)]
                        sg0 == small_sigma0(w15)
                        sg1 == small_sigma1(w2)
                    IN  [s.w EXCEPT ![and15(i)] =
                            wrapping_add(wrapping_add(wrapping_add(w16, sg0), w7), sg1)]
               ELSE s.w
        wi  == w1[and15(i)]
        ki  == K256[i]
        bs1 == big_sigma1(s.e)
        chv == ch(s.e, s.f, s.g)
        bs0 == big_sigma0(s.a)
        mj  == maj(s.a, s.b, s.c)
        t1  == wrapping_add(wrapping_add(wrapping_add(wrapping_add(s.h, bs1), chv), wi), ki)
        t2  == wrapping_add(bs0, mj)
    IN  [w |-> w1, a |-> wrapping_add(t1, t2), b |-> s.a, c |-> s.b, d |-> s.c,
         e |-> wrapping_add(s.d, t1), f |-> s.e, g |-> s.f, h |-> s.g]

\* R!(i); R!(i + 1); ... R!(63);
\* (n = n is true; it has TLC compute the words of n before the next round.)
RECURSIVE R_from(_, _)
R_from(s, i) ==
    IF i > 63 THEN s
    ELSE LET n == R(s, i) IN IF n = n THEN R_from(n, i + 1) ELSE s

\* all_rounds of the feature "speed": the new state.
speed_all_rounds(state, w) == store(state, R_from(load(state, w), 0))

\* ---------------------------------------------------------- sha256/macros

s0(x) == xor(xor(rotate_right(x, 7), rotate_right(x, 18)), shr32(x, 3))

s1(x) == xor(xor(rotate_right(x, 17), rotate_right(x, 19)), shr32(x, 10))

S0(x) == xor(xor(rotate_right(x, 2), rotate_right(x, 13)), rotate_right(x, 22))

S1(x) == xor(xor(rotate_right(x, 6), rotate_right(x, 11)), rotate_right(x, 25))

CH(e, f, g) == xor(and(e, f), and(not(e), g))

MAJ(a, b, c) == xor(xor(and(a, b), and(a, c)), and(b, c))

\* expand_w_line with w[i - 14] where the macro reads w[i - 15].
expand_w_line_14(w, i) ==
    [w EXCEPT ![i] =
        wrapping_add(wrapping_add(wrapping_add(w[i - 16], s0(w[i - 14])), w[i - 7]),
                     s1(w[i - 2]))]

\* expand_w_line!(w, i) on the 64-word array w.
expand_w_line(w, i) ==
    [w EXCEPT ![i] =
        wrapping_add(wrapping_add(wrapping_add(w[i - 16], s0(w[i - 15])), w[i - 7]),
                     s1(w[i - 2]))]

\* expand_w_line!(w, i); ... expand_w_line!(w, 63);
RECURSIVE expand_w_from(_, _)
expand_w_from(w, i) ==
    IF i > 63 THEN w
    ELSE LET n == expand_w_line(w, i) IN IF n = n THEN expand_w_from(n, i + 1) ELSE w

\* expand_w!(w): lines 16 to 63.
expand_w(w) == expand_w_from(w, 16)

\* ROUND!(a, b, c, d, e, f, g, h, w, k)
ROUND(s, w, k) ==
    LET t1 == wrapping_add(wrapping_add(wrapping_add(wrapping_add(
                  s.h, S1(s.e)), CH(s.e, s.f, s.g)), k), w)
        t2 == wrapping_add(S0(s.a), MAJ(s.a, s.b, s.c))
    IN  [s EXCEPT !.h = s.g, !.g = s.f, !.f = s.e, !.e = wrapping_add(s.d, t1),
                  !.d = s.c, !.c = s.b, !.b = s.a, !.a = wrapping_add(t1, t2)]

\* ROUND!(.., w[i], k[i]); ... ROUND!(.., w[63], k[63]);
RECURSIVE ROUND_from(_, _, _)
ROUND_from(s, w, i) ==
    IF i > 63 THEN s
    ELSE LET n == ROUND(s, w[i], K256[i]) IN IF n = n THEN ROUND_from(n, w, i + 1) ELSE s

\* The formulation of macros.rs on a state and a block of 16 words: the
\* words fill w[0..16] of a 64-word array, expand_w! fills the rest,
\* all_rounds! runs on the working variables loaded from the state, and
\* the variables are added back as all_rounds does.
macro_all_rounds(state, w) ==
    LET w64 == expand_w([i \in 0..63 |-> IF i < 16 THEN w[i] ELSE Word(0, 0)])
    IN  store(state, ROUND_from(load(state, w), w64, 0))

\* ------------------------------------------------------------ sha256/core

Zero32 == [k \in 0..31 |-> 0]

ZeroU256 == [j \in 0..31 |-> 0]

ZeroBlock == [k \in 0..63 |-> 0]

\* compress, lines 59..63: the 16 big-endian words of the block.
parse_block(blk) ==
    [j \in 0..15 |->
        from_be_bytes(blk[4 * j], blk[4 * j + 1], blk[4 * j + 2], blk[4 * j + 3])]

\* ((len as u64) << 3).to_be_bytes(): the u64 is a 64-bit vector, the shift
\* drops what leaves bit 63, byte 0 is the most significant.
len_bytes(len) ==
    LET bit_len == [k \in 0..63 |-> IF k >= 3 THEN BitOf(len, k - 3) ELSE 0]
    IN  [j \in 0..7 |-> BitsToNat(bit_len, 8 * (7 - j), 8)]

\* The words written with to_le_bytes.
U256_from_words_le(value) ==
    [j \in 0..31 |-> to_be_byte(value[j \div 4], 3 - (j % 4))]

\* impl From<[u32; 8]> for U256: word j fills bytes 4j..4j+3, big-endian.
U256_from_words(value) ==
    [j \in 0..31 |-> to_be_byte(value[j \div 4], j % 4)]

\* pad_block without the write of the 0x80 marker.
pad_block_no_marker(input, i, rem) ==
    [k \in 0..63 |-> IF k < rem THEN input[i + k] ELSE 0]

\* The block copied from the remaining rem bytes of the input at offset i,
\* followed by the 0x80 marker (the block starts all zero).
pad_block(input, i, rem) ==
    [k \in 0..63 |->
        IF k < rem THEN input[i + k] ELSE IF k = rem THEN \h80 ELSE 0]

\* The threshold off by one: 56 bytes and the marker share the block with
\* the length.
needs_extra_block_56(rem) == rem > 56

\* if rem > 55: the marker leaves no room for the 8 length bytes.
needs_extra_block(rem) == rem > 55

\* The block with the bit length written into bytes 56..63.
with_length(blk, len) ==
    [k \in 0..63 |-> IF k >= 56 THEN len_bytes(len)[k - 56] ELSE blk[k]]

\* A call of compress(blk, &mut state) made by the sha256 call c, which
\* resumes at ret: the words are parsed, all_rounds loads a..h from the state.
compress(c, blk, ret) ==
    [c EXCEPT !.cblock = blk, !.w = parse_block(blk),
              !.a = c.state[0], !.b = c.state[1], !.c = c.state[2],
              !.d = c.state[3], !.e = c.state[4], !.f = c.state[5],
              !.g = c.state[6], !.h = c.state[7],
              !.round = 0, !.pc = "rounds", !.ret = ret,
              !.ncompress = c.ncompress + 1]

\* all_rounds as one function: the 64 iterations of the loop, then the
\* additions into the state.
RECURSIVE rounds_from(_)
rounds_from(c) ==
    IF c.round > 63 THEN c
    ELSE LET n == round_body(c) IN IF n = n THEN rounds_from(n) ELSE c

all_rounds(state, w) ==
    add_back(rounds_from([state |-> state, round |-> 0] @@ load(state, w)))

\* The while loop of sha256 from offset i: the state and the offset it ends with.
RECURSIVE full_blocks(_, _, _)
full_blocks(input, state, i) ==
    IF i + 64 <= Cardinality(DOMAIN input)
    THEN LET n == all_rounds(state, parse_block([k \in 0..63 |-> input[i + k]]))
         IN  IF n = n THEN full_blocks(input, n, i + 64) ELSE <<state, i>>
    ELSE <<state, i>>

\* sha256 as one function of its input: a call that runs from entry to
\* return with nothing in between.
sha256(input) ==
    LET len   == Cardinality(DOMAIN input)
        r     == full_blocks(input, H256_INIT, 0)
        i     == r[2]
        rem   == len - i
        blk   == pad_block(input, i, rem)
        extra == needs_extra_block(rem)
        st    == IF extra THEN all_rounds(r[1], parse_block(blk)) ELSE r[1]
        last  == with_length(IF extra THEN ZeroBlock ELSE blk, len)
    IN  U256_from_words(all_rounds(st, parse_block(last)))

\* ------------------------------------------------------- primitives/ops

\* u8 << n and u8 >> n for 0 <= n <= 7, and u8 | u8.
shl8(x, n) == (x * Pow2(n)) % 256

shr8(x, n) == x \div Pow2(n)

or8(x, y) ==
    BitsToNat([k \in 0..7 |-> IF BitOf(x, k) = 1 \/ BitOf(y, k) = 1 THEN 1 ELSE 0], 0, 8)

\* The amount read from the last byte alone.
shift_amount_u8(rhs) == rhs[31]

\* The amount read from the last three bytes.
shift_amount_u24(rhs) == rhs[29] * 65536 + rhs[30] * 256 + rhs[31]

\* (((rhs.0[30] as u32) << 8) | rhs.0[31] as u32) as usize
shift_amount(rhs) == rhs[30] * 256 + rhs[31]

RECURSIVE shl_bits(_, _, _)
\* The loop for i in 0..32 of shl from index i on: it updates out in place,
\* so out[i - 1] is read after it was rewritten.
shl_bits(o, i, bit_shift) ==
    IF i = 32 THEN o
    ELSE LET carry_bits == 8 - bit_shift
             hi == shl8(o[i], bit_shift)
             c  == IF i > 0 THEN shr8(o[i - 1], carry_bits) ELSE 0
         IN  shl_bits([o EXCEPT ![i] = or8(hi, c)], i + 1, bit_shift)

\* impl Shl<U256> for U256
shl(self, rhs) ==
    LET shift      == shift_amount(rhs)
        byte_shift == shift \div 8
        bit_shift  == shift % 8
        moved      == [i \in 0..31 |->
                          IF i + byte_shift < 32 THEN self[i + byte_shift] ELSE 0]
    IN  IF shift = 0 THEN self
        ELSE IF shift >= 256 THEN ZeroU256
        ELSE IF bit_shift # 0 THEN shl_bits(moved, 0, bit_shift)
        ELSE moved

\* The second loop of shr: every byte is computed from the copy prev.
shr_bits(prv, bit_shift) ==
    LET carry_bits == 8 - bit_shift
    IN  [i \in 0..31 |->
            LET lo == shr8(prv[i], bit_shift)
                c  == IF i + 1 < 32 THEN shl8(prv[i + 1], carry_bits) ELSE 0
            IN  or8(lo, c)]

\* impl Shr<U256> for U256
shr(self, rhs) ==
    LET shift      == shift_amount(rhs)
        byte_shift == shift \div 8
        bit_shift  == shift % 8
        moved      == [i \in 0..31 |->
                          IF i >= byte_shift THEN self[i - byte_shift] ELSE 0]
    IN  IF shift = 0 THEN self
        ELSE IF shift >= 256 THEN ZeroU256
        ELSE IF bit_shift # 0 THEN shr_bits(moved, bit_shift)
        ELSE moved

RECURSIVE add_loop_late_carry(_, _, _, _, _)
\* The carry taken from the two bytes alone, before the incoming carry is added.
add_loop_late_carry(self, rhs, o, i, carry) ==
    IF i < 0 THEN o
    ELSE LET s == self[i] + rhs[i]
         IN  add_loop_late_carry(self, rhs, [o EXCEPT ![i] = (s + carry) % 256],
                                 i - 1, s \div 256)

RECURSIVE add_loop(_, _, _, _, _)
\* for i in (0..32).rev() of add, from index i down, carry a u16.
add_loop(self, rhs, o, i, carry) ==
    IF i < 0 THEN o
    ELSE LET s == self[i] + rhs[i] + carry
         IN  add_loop(self, rhs, [o EXCEPT ![i] = s % 256], i - 1, s \div 256)

\* Every byte added with u8::wrapping_add, no carry between bytes.
add_bytewise(self, rhs) == [i \in 0..31 |-> (self[i] + rhs[i]) % 256]

\* impl Add for U256
add(self, rhs) == add_loop(self, rhs, ZeroU256, 31, 0)

RECURSIVE sub_loop_strict(_, _, _, _, _)
\* The comparison lhs > s in place of lhs >= s.
sub_loop_strict(self, rhs, o, i, borrow) ==
    IF i < 0 THEN o
    ELSE LET l == self[i]
             s == rhs[i] + borrow
         IN  IF l > s
             THEN sub_loop_strict(self, rhs, [o EXCEPT ![i] = (l - s) % 256], i - 1, 0)
             ELSE sub_loop_strict(self, rhs, [o EXCEPT ![i] = (l + 256 - s) % 256], i - 1, 1)

RECURSIVE sub_loop(_, _, _, _, _)
\* for i in (0..32).rev() of sub, from index i down, borrow an i16.
sub_loop(self, rhs, o, i, borrow) ==
    IF i < 0 THEN o
    ELSE LET l == self[i]
             s == rhs[i] + borrow
         IN  IF l >= s
             THEN sub_loop(self, rhs, [o EXCEPT ![i] = (l - s) % 256], i - 1, 0)
             ELSE sub_loop(self, rhs, [o EXCEPT ![i] = (l + 256 - s) % 256], i - 1, 1)

\* impl Sub for U256
sub(self, rhs) == sub_loop(self, rhs, ZeroU256, 31, 0)

\* ------------------------------------------------------ primitives/conv

\* An unsigned integer of N bits is a bit vector [0..N-1 -> {0,1}], bit 0 the
\* least significant; byte strings handed to from_be_bytes and returned by
\* to_be_bytes are sequences, the first byte the most significant.

\* uN::from_be_bytes(bs), N = 8 * Len(bs).
from_be(bs) ==
    LET n == Len(bs)
    IN  [k \in 0..(8 * n - 1) |-> BitOf(bs[n - (k \div 8)], k % 8)]

\* uN::to_be_bytes(x) for a uN of n bytes.
to_be(x, n) == [j \in 1..n |-> BitsToNat(x, 8 * (n - j), 8)]

\* value.0[from..to] as a byte string.
slice(value, from, to) == [j \in 1..(to - from) |-> value[from + j - 1]]

\* Result<uN, ()>, a uN, a word array and a U256 as values of one shape.
Ok(N, x) == [kind |-> "word", N |-> N, v |-> x]

Err(N) == [kind |-> "err", N |-> N, v |-> <<>>]

\* for (i, chunk) in value.0.chunks_exact(n).enumerate():
\*     out[i] = uN::from_be_bytes(chunk)
words_of_chunks(value, n) ==
    [i \in 0..((32 \div n) - 1) |-> from_be(slice(value, i * n, i * n + n))]

\* for (i, v) in value.into_iter().enumerate():
\*     out[i * n..i * n + n].copy_from_slice(&v.to_be_bytes())
bytes_of_words(value, n) ==
    [j \in 0..31 |-> to_be(value[j \div n], n)[(j % n) + 1]]

\* conv/u16.rs
u16_array_from(value) == words_of_chunks(value, 2)

U256_from_u16_array(value) == bytes_of_words(value, 2)

u16_try_from(value) ==
    IF \E j \in 0..29 : value[j] # 0 THEN Err(16)
    ELSE Ok(16, from_be(<<value[30], value[31]>>))

\* out[30] = (value >> 8) as u8; out[31] = (value & 0xFF) as u8
\* U256_from_u16 with the two bytes in little-endian order.
U256_from_u16_le(value) ==
    [j \in 0..31 |->
        IF j = 30 THEN BitsToNat(value, 0, 8)
        ELSE IF j = 31 THEN BitsToNat(value, 8, 8)
        ELSE 0]

U256_from_u16(value) ==
    [j \in 0..31 |->
        IF j = 30 THEN BitsToNat(value, 8, 8)
        ELSE IF j = 31 THEN BitsToNat(value, 0, 8)
        ELSE 0]

\* conv/u32.rs
u32_array_from(value) == words_of_chunks(value, 4)

u32_try_from(value) ==
    IF \E j \in 0..27 : value[j] # 0 THEN Err(32)
    ELSE Ok(32, from_be(<<value[28], value[29], value[30], value[31]>>))

U256_from_u32(value) ==
    [j \in 0..31 |-> IF j >= 28 THEN to_be(value, 4)[j - 28 + 1] ELSE 0]

\* conv/u64.rs
u64_array_from(value) == words_of_chunks(value, 8)

U256_from_u64_array(value) == bytes_of_words(value, 8)

\* u64_try_from with a zero test that misses the byte next to the word.
u64_try_from_short(value) ==
    IF \E j \in 0..22 : value[j] # 0 THEN Err(64)
    ELSE Ok(64, from_be(<<value[24], value[25], value[26], value[27],
                          value[28], value[29], value[30], value[31]>>))

u64_try_from(value) ==
    IF \E j \in 0..23 : value[j] # 0 THEN Err(64)
    ELSE Ok(64, from_be(<<value[24], value[25], value[26], value[27],
                          value[28], value[29], value[30], value[31]>>))

U256_from_u64(value) ==
    [j \in 0..31 |-> IF j >= 24 THEN to_be(value, 8)[j - 24 + 1] ELSE 0]

\* conv/u128.rs
\* u128_array_from with the low half in element 0.
u128_array_from_lo_first(value) ==
    LET hi == slice(value, 0, 16)
        lo == slice(value, 16, 32)
    IN  [i \in 0..1 |-> IF i = 0 THEN from_be(lo) ELSE from_be(hi)]

u128_array_from(value) ==
    LET hi == slice(value, 0, 16)
        lo == slice(value, 16, 32)
    IN  [i \in 0..1 |-> IF i = 0 THEN from_be(hi) ELSE from_be(lo)]

U256_from_u128_array(value) ==
    [j \in 0..31 |->
        IF j < 16 THEN to_be(value[0], 16)[j + 1] ELSE to_be(value[1], 16)[j - 16 + 1]]

u128_try_from(value) ==
    IF \E j \in 0..15 : value[j] # 0 THEN Err(128)
    ELSE LET buf == slice(value, 16, 32) IN Ok(128, from_be(buf))

U256_from_u128(value) ==
    [j \in 0..31 |-> IF j >= 16 THEN to_be(value, 16)[j - 16 + 1] ELSE 0]

\* The conversion of each width, chosen by the type of the word.
try_from(N, value) ==
    CASE N = 16  -> u16_try_from(value)
      [] N = 32  -> u32_try_from(value)
      [] N = 64  -> u64_try_from(value)
      [] N = 128 -> u128_try_from(value)

U256_from(N, value) ==
    CASE N = 16  -> U256_from_u16(value)
      [] N = 32  -> U256_from_u32(value)
      [] N = 64  -> U256_from_u64(value)
      [] N = 128 -> U256_from_u128(value)

array_from(N, value) ==
    CASE N = 16  -> u16_array_from(value)
      [] N = 32  -> u32_array_from(value)
      [] N = 64  -> u64_array_from(value)
      [] N = 128 -> u128_array_from(value)

U256_from_array(N, value) ==
    CASE N = 16  -> U256_from_u16_array(value)
      [] N = 32  -> U256_from_words(value)
      [] N = 64  -> U256_from_u64_array(value)
      [] N = 128 -> U256_from_u128_array(value)

Widths == {16, 32, 64, 128}

\* --------------------------------------------------------------- the state

VARIABLES
    sha,    \* one record per sha256 call in progress, by call id
    lhs,    \* U256 arithmetic: the first operand
    rhs,    \*   the right-hand operand (an amount or a summand)
    ops,    \*   the operators applied so far, in order
    prev,   \*   the value the last operator was applied to
    out     \*   the value the last operator returned

vars == <<sha, lhs, rhs, ops, prev, out>>

\* ------------------------------------------------------------------ inputs

\* The bytes of "abc".
Abc == [k \in 0..2 |-> <<\h61, \h62, \h63>>[k + 1]]

\* An input of L bytes whose content depends on its length.
Fill(L) == [k \in 0..(L - 1) |-> (7 * k + 31 * L + 1) % 256]

Inputs == {Abc} \cup {Fill(L) : L \in 0..MaxLen}

\* A U256 with one non-zero byte.
OneByte(j, v) == [k \in 0..31 |-> IF k = j THEN v ELSE 0]

\* A U256 whose bytes all differ.
Pattern(n) == [j \in 0..31 |-> (73 * n + j * (2 * n + 29) + j * j) % 256]

\* impl From<u16> for U256, as the caller of a shift builds its amount.
Amount(s) == [j \in 0..31 |-> IF j = 30 THEN s \div 256 ELSE IF j = 31 THEN s % 256 ELSE 0]

Samples ==
    { ZeroU256, OneByte(31, 1), OneByte(31, \h80), OneByte(30, 1),
      OneByte(0, \h80), OneByte(0, 1), [j \in 0..31 |-> \hFF] }
    \cup { Pattern(n) : n \in 1..MaxPattern }

\* Amounts, small and large, and amounts with bytes set above byte 30.
Amounts ==
    { Amount(s) : s \in 0..MaxAmount }
    \cup { Amount(511), Amount(512), Amount(4096), Amount(65535) }
    \cup { OneByte(29, 1), OneByte(0, 1),
           [Amount(3) EXCEPT ![29] = 1], [Amount(300) EXCEPT ![12] = 7] }

\* sha256 lines 117..120: the state of a call on entry to the while loop.
sha256_entry(input) ==
    [input |-> input, len |-> Cardinality(DOMAIN input), i |-> 0, rem |-> 0,
     state |-> H256_INIT, block |-> ZeroBlock, cblock |-> ZeroBlock,
     w |-> [j \in 0..15 |-> Zero32],
     a |-> Zero32, b |-> Zero32, c |-> Zero32, d |-> Zero32,
     e |-> Zero32, f |-> Zero32, g |-> Zero32, h |-> Zero32,
     round |-> 0, pc |-> "loop", ret |-> "none", ncompress |-> 0,
     digest |-> ZeroU256]

NoU256 == ZeroU256

U256Idle ==
    /\ lhs = NoU256 /\ rhs = NoU256 /\ ops = <<>>
    /\ prev = NoU256 /\ out = NoU256

Init ==
    /\ \E input \in Inputs : sha = [p \in {1} |-> sha256_entry(input)]
    /\ U256Idle

\* ----------------------------------------------------------------- sha256

\* while i + 64 <= len: compress the block at offset i.
FullBlock(p) ==
    LET c == sha[p] IN
    /\ c.pc = "loop"
    /\ c.i + 64 <= c.len
    /\ sha' = [sha EXCEPT ![p] =
                  compress(c, [k \in 0..63 |-> c.input[c.i + k]], "loop")]
    /\ UNCHANGED <<lhs, rhs, ops, prev, out>>

\* Lines 129..144: the loop is left, the last block is built, and compressed
\* at once when there is no room for the length.
Pad(p) ==
    LET c   == sha[p]
        rem == c.len - c.i
        blk == pad_block(c.input, c.i, rem)
        c1  == [c EXCEPT !.rem = rem, !.block = blk]
    IN
    /\ c.pc = "loop"
    /\ ~(c.i + 64 <= c.len)
    /\ sha' = [sha EXCEPT ![p] =
                  IF needs_extra_block(rem) THEN compress(c1, blk, "extra")
                              ELSE [c1 EXCEPT !.pc = "length"]]
    /\ UNCHANGED <<lhs, rhs, ops, prev, out>>

\* Lines 146..157: the bit length goes into bytes 56..63, the block is compressed.
Length(p) ==
    LET c   == sha[p]
        blk == with_length(c.block, c.len)
    IN
    /\ c.pc = "length"
    /\ sha' = [sha EXCEPT ![p] = compress([c EXCEPT !.block = blk], blk, "final")]
    /\ UNCHANGED <<lhs, rhs, ops, prev, out>>

\* Round with the schedule buffer w in one place shared by all calls.
Round_shared_w(p) ==
    LET c == sha[p] IN
    /\ c.pc = "rounds"
    /\ c.round < 64
    /\ sha' = [q \in DOMAIN sha |->
                  IF q = p THEN round_body(c)
                  ELSE [sha[q] EXCEPT !.w = round_body(c).w]]
    /\ UNCHANGED <<lhs, rhs, ops, prev, out>>

\* One iteration of for i in 0..64 of all_rounds.
Round(p) ==
    LET c == sha[p] IN
    /\ c.pc = "rounds"
    /\ c.round < 64
    /\ sha' = [sha EXCEPT ![p] = round_body(c)]
    /\ UNCHANGED <<lhs, rhs, ops, prev, out>>

\* compress returns into the while loop: i += 64.
ReturnLoop(p) ==
    LET c == sha[p] IN
    /\ c.pc = "rounds" /\ c.round = 64 /\ c.ret = "loop"
    /\ sha' = [sha EXCEPT ![p] =
                  [c EXCEPT !.state = add_back(c), !.i = c.i + 64, !.pc = "loop"]]
    /\ UNCHANGED <<lhs, rhs, ops, prev, out>>

\* compress returns after the first of two padded blocks: block = [0; 64].
ReturnExtra(p) ==
    LET c == sha[p] IN
    /\ c.pc = "rounds" /\ c.round = 64 /\ c.ret = "extra"
    /\ sha' = [sha EXCEPT ![p] =
                  [c EXCEPT !.state = add_back(c), !.block = ZeroBlock,
                            !.pc = "length"]]
    /\ UNCHANGED <<lhs, rhs, ops, prev, out>>

\* The last compress returns: sha256 returns U256::from(state).
ReturnFinal(p) ==
    LET c == sha[p] IN
    /\ c.pc = "rounds" /\ c.round = 64 /\ c.ret = "final"
    /\ sha' = [sha EXCEPT ![p] =
                  [c EXCEPT !.state = add_back(c),
                            !.digest = U256_from_words(add_back(c)),
                            !.pc = "done"]]
    /\ UNCHANGED <<lhs, rhs, ops, prev, out>>

Next ==
    \/ \E p \in DOMAIN sha : FullBlock(p)
    \/ \E p \in DOMAIN sha : Pad(p)
    \/ \E p \in DOMAIN sha : Length(p)
    \/ \E p \in DOMAIN sha : Round(p)
    \/ \E p \in DOMAIN sha : ReturnLoop(p)
    \/ \E p \in DOMAIN sha : ReturnExtra(p)
    \/ \E p \in DOMAIN sha : ReturnFinal(p)

Spec == Init /\ [][Next]_vars

\* sha256 on inputs whose lengths lie on both sides of the padding
\* boundaries (55 | 56, 63 | 64, 119 | 120), two contents for each length.
BoundaryLengths == {0, 1, 55, 56, 63, 64, 65, 119, 120}

Fill2(L) == [k \in 0..(L - 1) |-> (251 - 13 * k + 5 * L + k * k) % 256]

BoundaryInputs ==
    {Abc} \cup {Fill(L) : L \in BoundaryLengths} \cup {Fill2(L) : L \in BoundaryLengths}

InitBoundary ==
    /\ \E input \in BoundaryInputs : sha = [p \in {1} |-> sha256_entry(input)]
    /\ U256Idle

SpecBoundary == InitBoundary /\ [][Next]_vars

\* Two calls of sha256 on different inputs, their steps interleaved in any
\* order: each step is one of one call.
Pairs == { <<Abc, Fill(120)>>, <<Fill(0), Abc>> }

InitTwo ==
    /\ \E pair \in Pairs : sha = [p \in {1, 2} |-> sha256_entry(pair[p])]
    /\ U256Idle

SpecTwo == InitTwo /\ [][Next]_vars

\* ------------------------------------------------------------------- U256

\* No sha256 call is in progress.
NoCalls == [p \in {} |-> 0]

InitU256 ==
    /\ sha = NoCalls
    /\ lhs \in Samples
    /\ rhs = ZeroU256 /\ ops = <<>>
    /\ prev = lhs /\ out = lhs

\* A caller applies at most two operators in a row, the second one to the
\* result of the first and with the same right-hand operand: (a << s) >> s,
\* (a + b) - b.  A first shift takes an amount, a first add or sub a sample.
Operand(first) == IF ops = <<>> THEN first ELSE {rhs}

DoShl ==
    /\ Len(ops) < 2
    /\ \E r \in Operand(Amounts) :
        /\ rhs' = r
        /\ out' = shl(out, r)
    /\ prev' = out
    /\ ops' = Append(ops, "shl")
    /\ UNCHANGED <<sha, lhs>>

DoShr ==
    /\ Len(ops) < 2
    /\ \E r \in Operand(Amounts) :
        /\ rhs' = r
        /\ out' = shr(out, r)
    /\ prev' = out
    /\ ops' = Append(ops, "shr")
    /\ UNCHANGED <<sha, lhs>>

DoAdd ==
    /\ Len(ops) < 2
    /\ \E r \in Operand(Samples) :
        /\ rhs' = r
        /\ out' = add(out, r)
    /\ prev' = out
    /\ ops' = Append(ops, "add")
    /\ UNCHANGED <<sha, lhs>>

DoSub ==
    /\ Len(ops) < 2
    /\ \E r \in Operand(Samples) :
        /\ rhs' = r
        /\ out' = sub(out, r)
    /\ prev' = out
    /\ ops' = Append(ops, "sub")
    /\ UNCHANGED <<sha, lhs>>

NextU256 == DoShl \/ DoShr \/ DoAdd \/ DoSub

SpecU256 == InitU256 /\ [][NextU256]_vars

\* ------------------------------------------------------------ conversions

\* A U256 and a word array as values of the shape of Ok and Err.
U(value) == [kind |-> "U256", N |-> 256, v |-> value]

Arr(N, value) == [kind |-> "array", N |-> N, v |-> value]

\* The U256 with the last n bytes of value and zeros above them.
LowBytes(n, value) == [j \in 0..31 |-> IF j >= 32 - n THEN value[j] ELSE 0]

\* A word of N bits with an irregular bit pattern.
WordPat(N, p) == [k \in 0..(N - 1) |-> (((k * (k + p)) \div (p + 1)) + p) % 2]

ConvU256 ==
    Samples
    \cup { OneByte(j, 1) : j \in 0..31 }
    \cup { LowBytes(n, Pattern(p)) : n \in {1, 2, 3, 4, 5, 8, 9, 16, 17}, p \in 1..MaxPattern }

ConvWords(N) ==
    { [k \in 0..(N - 1) |-> 0], [k \in 0..(N - 1) |-> IF k = 0 THEN 1 ELSE 0],
      [k \in 0..(N - 1) |-> 1] }
    \cup { WordPat(N, p) : p \in 1..MaxPattern }

ConvArrays(N) ==
    { [i \in 0..((256 \div N) - 1) |-> WordPat(N, p + i)] : p \in 0..MaxPattern }

\* The caller starts from a U256, from a word or from an array of words.
InitConv ==
    /\ sha = NoCalls
    /\ \/ lhs \in { U(x) : x \in ConvU256 }
       \/ \E N \in Widths : lhs \in { Ok(N, x) : x \in ConvWords(N) }
       \/ \E N \in Widths : lhs \in { Arr(N, x) : x \in ConvArrays(N) }
    /\ rhs = ZeroU256 /\ ops = <<>>
    /\ prev = lhs /\ out = lhs

\* A caller converts a value, and may convert the result once more.
\* uN::try_from(value)
TryFrom(N) ==
    /\ Len(ops) < 2
    /\ out.kind = "U256"
    /\ out' = try_from(N, out.v)
    /\ prev' = out
    /\ ops' = Append(ops, <<"try_from", N>>)
    /\ UNCHANGED <<sha, lhs, rhs>>

\* U256::from(word), the impl chosen by the type of the word
From ==
    /\ Len(ops) < 2
    /\ out.kind = "word"
    /\ out' = U(U256_from(out.N, out.v))
    /\ prev' = out
    /\ ops' = Append(ops, <<"from", out.N>>)
    /\ UNCHANGED <<sha, lhs, rhs>>

\* <[uN; 256 / N]>::from(value)
ArrayFrom(N) ==
    /\ Len(ops) < 2
    /\ out.kind = "U256"
    /\ out' = Arr(N, array_from(N, out.v))
    /\ prev' = out
    /\ ops' = Append(ops, <<"array_from", N>>)
    /\ UNCHANGED <<sha, lhs, rhs>>

\* U256::from(array), the impl chosen by the type of the array
FromArray ==
    /\ Len(ops) < 2
    /\ out.kind = "array"
    /\ out' = U(U256_from_array(out.N, out.v))
    /\ prev' = out
    /\ ops' = Append(ops, <<"from_array", out.N>>)
    /\ UNCHANGED <<sha, lhs, rhs>>

NextConv ==
    \/ \E N \in Widths : TryFrom(N)
    \/ From
    \/ \E N \in Widths : ArrayFrom(N)
    \/ FromArray

SpecConv == InitConv /\ [][NextConv]_vars

\* ------------------------------------------------------------------ claims

DigestEmpty ==
    [j \in 0..31 |->
        << \he3, \hb0, \hc4, \h42, \h98, \hfc, \h1c, \h14,
           \h9a, \hfb, \hf4, \hc8, \h99, \h6f, \hb9, \h24,
           \h27, \hae, \h41, \he4, \h64, \h9b, \h93, \h4c,
           \ha4, \h95, \h99, \h1b, \h78, \h52, \hb8, \h55 >>[j + 1]]

DigestAbc ==
    [j \in 0..31 |->
        << \hba, \h78, \h16, \hbf, \h8f, \h01, \hcf, \hea,
           \h41, \h41, \h40, \hde, \h5d, \hae, \h22, \h23,
           \hb0, \h03, \h61, \ha3, \h96, \h17, \h7a, \h9c,
           \hb4, \h10, \hff, \h61, \hf2, \h00, \h15, \had >>[j + 1]]

\* C1: a sha256 call on the empty byte sequence that has returned holds the
\* digest e3b0c442...7852b855, byte 0 first.
C1_EmptyDigest ==
    \A p \in DOMAIN sha :
        (sha[p].pc = "done" /\ sha[p].len = 0) => sha[p].digest = DigestEmpty

C1_Witness ==
    \E p \in DOMAIN sha :
        sha[p].pc = "done" /\ sha[p].len = 0 /\ sha[p].ncompress = 1

\* C2: a sha256 call on the three bytes "abc" that has returned holds the
\* digest ba7816bf...f20015ad, byte 0 first.
C2_AbcDigest ==
    \A p \in DOMAIN sha :
        (sha[p].pc = "done" /\ sha[p].input = Abc) => sha[p].digest = DigestAbc

C2_Witness ==
    \E p \in DOMAIN sha :
        sha[p].pc = "done" /\ sha[p].input = Abc /\ sha[p].ncompress = 1

\* C3: a sha256 call on L bytes that has returned has called compress exactly
\* ceil((L + 9) / 64) times, and from the last call of compress on, the block
\* it was given holds 8 * L in bytes 56..63 as a big-endian 64-bit integer.
C3_BlocksAndLength ==
    \A p \in DOMAIN sha :
        LET c == sha[p] IN
        /\ c.pc = "done" => c.ncompress = (c.len + 9 + 63) \div 64
        /\ (c.pc = "done" \/ (c.pc = "rounds" /\ c.ret = "final")) =>
              /\ \A k \in 56..60 : c.cblock[k] = 0
              /\ c.cblock[61] * 65536 + c.cblock[62] * 256 + c.cblock[63] = 8 * c.len

C3_Witness ==
    \E p \in DOMAIN sha :
        /\ sha[p].pc = "done" /\ sha[p].len >= 64 /\ sha[p].rem > 55
        /\ sha[p].ncompress = 3 /\ sha[p].cblock[62] # 0

\* Bit k of a U256, bit 0 the least significant: the value of v is the sum
\* of U256Bit(v, k) * 2^k.
U256Bit(v, k) == BitOf(v[31 - (k \div 8)], k % 8)

\* The last operator applied, and the amount a shift reads.
LastOp == IF ops = <<>> THEN "none" ELSE ops[Len(ops)]

Effective == rhs[30] * 256 + rhs[31]

\* C4: after shl by an effective amount s in 1..255, out is the logical left
\* shift of prev: bit k of out is bit k - s of prev, and 0 below s.
C4_ShlLogical ==
    (LastOp = "shl" /\ Effective \in 1..255) =>
        \A k \in 0..255 :
            U256Bit(out, k) = IF k >= Effective THEN U256Bit(prev, k - Effective) ELSE 0

\* C5: after shr by an effective amount s in 1..255, out is the logical right
\* shift of prev: bit k of out is bit k + s of prev, and 0 from 256 - s up.
C5_ShrLogical ==
    (LastOp = "shr" /\ Effective \in 1..255) =>
        \A k \in 0..255 :
            U256Bit(out, k) =
                IF k + Effective <= 255 THEN U256Bit(prev, k + Effective) ELSE 0

\* The value of the amount operand is at least 256.
AmountAtLeast256 == rhs[30] # 0 \/ \E j \in 0..29 : rhs[j] # 0

\* C6 as stated: a shift by any amount whose value is at least 256 returns zero.
C6_AnyLargeAmountZero ==
    (LastOp \in {"shl", "shr"} /\ AmountAtLeast256) => out = ZeroU256

\* C6 as amended: a shift by an amount whose bytes 30 and 31 hold a value of
\* at least 256 (byte 30 is not zero) returns zero.
C6_LargeEffectiveZero ==
    (LastOp \in {"shl", "shr"} /\ rhs[30] # 0) => out = ZeroU256

\* A non-zero value shifted right by exactly 256.
C6_Witness ==
    /\ LastOp = "shr" /\ rhs[30] = 1 /\ rhs[31] = 0
    /\ prev # ZeroU256 /\ out = ZeroU256

\* C7: shl then shr by the same amount s in 1..255 returns the first operand
\* with its s highest bits cleared.
C7_ShlShrClearsTop ==
    (ops = <<"shl", "shr">> /\ Effective \in 1..255) =>
        \A k \in 0..255 :
            U256Bit(out, k) = IF k < 256 - Effective THEN U256Bit(lhs, k) ELSE 0

\* Digit n of a U256 written in base 65536, digit 0 the least significant:
\* the value of v is the sum of Limb(v, n) * 65536^n.
Limb(v, n) == v[30 - 2 * n] * 256 + v[31 - 2 * n]

RECURSIVE SumLimbs(_, _, _, _)
\* The digits n..15 of x + y + cin * 65536^n in base 65536, the lowest first.
SumLimbs(x, y, n, cin) ==
    IF n = 16 THEN <<>>
    ELSE LET t == Limb(x, n) + Limb(y, n) + cin
         IN  <<t % 65536>> \o (IF t >= 65536 THEN SumLimbs(x, y, n + 1, 1)
                                              ELSE SumLimbs(x, y, n + 1, 0))

\* r = (x + y) mod 2^256: the carry out of the highest digit is dropped.
IsSumMod(r, x, y) ==
    LET t == SumLimbs(x, y, 0, 0) IN \A n \in 0..15 : Limb(r, n) = t[n + 1]

\* x < y as 256-bit numbers: at the first byte where they differ, x is less.
LessThan(x, y) ==
    \E j \in 0..31 : x[j] < y[j] /\ \A m \in 0..(j - 1) : x[m] = y[m]

\* C8: add returns (prev + rhs) mod 2^256.
C8_AddWraps == LastOp = "add" => IsSumMod(out, prev, rhs)

\* An addition whose carry runs through all 32 bytes and out of bit 255.
C8_Witness ==
    /\ LastOp = "add" /\ prev = [j \in 0..31 |-> \hFF] /\ rhs = OneByte(31, 1)
    /\ out = ZeroU256

\* C9: sub returns (prev - rhs) mod 2^256, the one value that added to rhs
\* modulo 2^256 gives prev.
C9_SubWraps == LastOp = "sub" => IsSumMod(prev, out, rhs)

\* A subtraction that underflows: the borrow runs through all 32 bytes.
C9_Witness ==
    /\ LastOp = "sub" /\ LessThan(prev, rhs) /\ prev = ZeroU256
    /\ rhs = OneByte(31, 1) /\ out = [j \in 0..31 |-> \hFF]

\* C10: add then sub, and sub then add, of the same value return the first
\* operand.
C10_AddSubIdentity ==
    (ops = <<"add", "sub">> \/ ops = <<"sub", "add">>) => out = lhs

\* An addition that overflowed (the sum is below the first operand), undone.
C10_Witness ==
    ops = <<"add", "sub">> /\ LessThan(prev, lhs) /\ rhs # ZeroU256 /\ out = lhs

\* The last conversion applied was op at width N.
LastConv(op, N) == ops # <<>> /\ ops[Len(ops)] = <<op, N>>

\* C11: narrowing a U256 to N bits returns Ok exactly when its first
\* 32 - N/8 bytes are all zero, and then the word is the low N bits of the
\* value; otherwise it returns Err.
C11_Narrowing ==
    \A N \in Widths :
        LastConv("try_from", N) =>
            LET fits == \A j \in 0..(31 - (N \div 8)) : prev.v[j] = 0
            IN  /\ fits =>
                    /\ out.kind = "word" /\ out.N = N
                    /\ DOMAIN out.v = 0..(N - 1)
                    /\ \A k \in 0..(N - 1) : out.v[k] = U256Bit(prev.v, k)
                /\ ~fits => out.kind = "err"

\* Only the lowest byte above the 64-bit word is not zero: Err.
C11_Witness ==
    /\ LastConv("try_from", 64) /\ prev.v = OneByte(23, 1) /\ out.kind = "err"

\* C12: narrowing U256::from(w) to the width of w returns Ok(w); U256::from(w)
\* holds w in its low N bits and zeros above; and widening the result of a
\* narrowing that succeeded returns the value narrowed.
C12_WidenNarrow ==
    \A N \in Widths :
        /\ ops = << <<"from", N>>, <<"try_from", N>> >> =>
              out.kind = "word" /\ out.N = N /\ out.v = lhs.v
        /\ LastConv("from", N) =>
              \A k \in 0..255 :
                  U256Bit(out.v, k) = IF k < N THEN prev.v[k] ELSE 0
        /\ ops = << <<"try_from", N>>, <<"from", N>> >> =>
              out.kind = "U256" /\ out.v = lhs.v

\* A 128-bit word with its highest bit set, widened and narrowed back.
C12_Witness ==
    /\ ops = << <<"from", 128>>, <<"try_from", 128>> >>
    /\ lhs.v[127] = 1 /\ lhs.v[0] = 0 /\ out.v = lhs.v

\* C13: U256 -> array -> U256 and array -> U256 -> array return what they
\* started from, and element i of the array of a U256 holds bits
\* 256 - (i + 1) * N .. 256 - i * N - 1 of the value: element 0 the most
\* significant, each element read big-endian.
C13_ArrayRoundTrip ==
    \A N \in Widths :
        /\ ops = << <<"array_from", N>>, <<"from_array", N>> >> =>
              out.kind = "U256" /\ out.v = lhs.v
        /\ ops = << <<"from_array", N>>, <<"array_from", N>> >> =>
              out.kind = "array" /\ out.N = N /\ out.v = lhs.v
        /\ LastConv("array_from", N) =>
              /\ DOMAIN out.v = 0..((256 \div N) - 1)
              /\ \A i \in 0..((256 \div N) - 1) :
                    /\ DOMAIN out.v[i] = 0..(N - 1)
                    /\ \A k \in 0..(N - 1) :
                          out.v[i][k] = U256Bit(prev.v, 256 - (i + 1) * N + k)

\* A U256 whose bytes all differ, split into two u128 and joined again.
C13_Witness ==
    /\ ops = << <<"array_from", 128>>, <<"from_array", 128>> >>
    /\ lhs.v = Pattern(1) /\ out.v = lhs.v

\* C14: whenever the loop all_rounds has run its 64 rounds, the state it is
\* about to store equals the state the unrolled all_rounds of the feature
\* "speed" returns and the state the macros of macros.rs return, on the
\* same input state and the same 16 block words.
C14_SameRounds ==
    \A p \in DOMAIN sha :
        LET c == sha[p] IN
        (c.pc = "rounds" /\ c.round = 64) =>
            /\ speed_all_rounds(c.state, parse_block(c.cblock)) = add_back(c)
            /\ macro_all_rounds(c.state, parse_block(c.cblock)) = add_back(c)

\* The third block of the input of 120 bytes: the block of the length alone.
C14_Witness ==
    \E p \in DOMAIN sha :
        /\ sha[p].len = 120 /\ sha[p].ncompress = 3
        /\ sha[p].pc = "rounds" /\ sha[p].round = 64
        /\ macro_all_rounds(sha[p].state, parse_block(sha[p].cblock)) = add_back(sha[p])

\* Every call has returned.
AllDone == \A p \in DOMAIN sha : sha[p].pc = "done"

\* A step of call p leaves the record of every other call as it was.
OthersUntouched ==
    \A p \in DOMAIN sha :
        sha'[p] # sha[p] => \A q \in DOMAIN sha \ {p} : sha'[q] = sha[q]

\* C15: with two calls on different inputs interleaved in any order, each
\* call returns the digest sha256 returns on its input when run from entry
\* to return with nothing in between, and no step of one call changes the
\* state, block or schedule of the other.
C15_Interleaved ==
    /\ [](AllDone => \A p \in DOMAIN sha : sha[p].digest = sha256(sha[p].input))
    /\ [][OthersUntouched]_vars

\* Both calls are in their rounds, the longer input in its third block.
C15_Witness ==
    /\ DOMAIN sha = {1, 2}
    /\ sha[1].pc = "rounds" /\ sha[1].round = 30
    /\ sha[2].pc = "rounds" /\ sha[2].round = 7 /\ sha[2].ncompress = 3

\* The length of the padded message of L bytes: L + 1 + 8 rounded up to a
\* multiple of 64, so that the zeros before the length are the fewest.
PaddedLen(L) == 64 * ((L + 8) \div 64 + 1)

\* Byte k of input ++ 0x80 ++ 0x00.. ++ (8 * L as 8 bytes, big-endian);
\* 8 * L is below 2^24 here, so that the first five length bytes are zero.
PaddedByte(input, k) ==
    LET L == Cardinality(DOMAIN input)
        T == PaddedLen(L)
    IN  IF k < L THEN input[k]
        ELSE IF k = L THEN 128
        ELSE IF k < T - 3 THEN 0
        ELSE ((8 * L) \div Pow2(8 * (T - 1 - k))) % 256

\* C16: the n-th block given to compress is the n-th 64 bytes of the padded
\* message; the calls end when the padded message is used up; the blocks
\* read from the input come first, in increasing offset, and the padded
\* blocks after them; and there are two padded blocks exactly when
\* L mod 64 > 55, the second one all zero before its length field.
C16_BlockSequence ==
    \A p \in DOMAIN sha :
        LET c    == sha[p]
            L    == c.len
            full == L \div 64
        IN
        /\ c.pc = "rounds" =>
              /\ c.ncompress >= 1 /\ 64 * c.ncompress <= PaddedLen(L)
              /\ \A k \in 0..63 :
                    c.cblock[k] = PaddedByte(c.input, 64 * (c.ncompress - 1) + k)
              /\ c.ret = "loop" <=> c.ncompress <= full
              /\ c.ret = "loop" =>
                    /\ c.i = 64 * (c.ncompress - 1)
                    /\ \A k \in 0..63 : c.cblock[k] = c.input[c.i + k]
              /\ c.ret = "extra" => c.ncompress = full + 1 /\ L % 64 > 55
              /\ c.ret = "final" =>
                    c.ncompress = IF L % 64 > 55 THEN full + 2 ELSE full + 1
              /\ (c.ret = "final" /\ L % 64 > 55) =>
                    \A k \in 0..55 : c.cblock[k] = 0
        /\ c.pc = "done" =>
              /\ 64 * c.ncompress = PaddedLen(L)
              /\ c.ncompress = full + (IF L % 64 > 55 THEN 2 ELSE 1)
        /\ c.pc \in {"loop", "length"} =>
              c.ncompress = IF c.pc = "loop" THEN c.i \div 64
                            ELSE IF L % 64 > 55 THEN full + 1 ELSE full

\* The third block of an input of 120 bytes: zeros, then 960 = 0x03C0.
C16_Witness ==
    \E p \in DOMAIN sha :
        /\ sha[p].len = 120 /\ sha[p].pc = "rounds" /\ sha[p].ret = "final"
        /\ sha[p].ncompress = 3 /\ sha[p].round = 0
        /\ sha[p].cblock[0] = 0 /\ sha[p].cblock[62] = 3 /\ sha[p].cblock[63] = 192

\* The amount modulo 2^16, as a U256: bytes 30 and 31 kept, the rest zero.
Low16(amount) == [j \in 0..31 |-> IF j >= 30 THEN amount[j] ELSE 0]

\* C17: a shift by an amount returns what the shift by the amount modulo
\* 2^16 returns; when bytes 30 and 31 of the amount are zero the value is
\* returned unchanged, whatever the other bytes hold; when they hold
\* 256..65535 the result is all zero.
C17_Low16Only ==
    /\ LastOp = "shl" => out = shl(prev, Low16(rhs))
    /\ LastOp = "shr" => out = shr(prev, Low16(rhs))
    /\ (LastOp \in {"shl", "shr"} /\ rhs[30] = 0 /\ rhs[31] = 0) => out = prev
    /\ (LastOp \in {"shl", "shr"} /\ rhs[30] # 0) => out = ZeroU256

\* An amount of 2^16 + 3 shifts left as 3 does, and 2^248 leaves the value.
C17_Witness ==
    /\ LastOp = "shl" /\ rhs = [Amount(3) EXCEPT ![29] = 1]
    /\ prev # ZeroU256 /\ out # prev /\ out = shl(prev, Amount(3))

\* The indices of the accesses made without a bounds check.
\* &*(input.as_ptr().add(i) as *const [u8; 64])
full_block_reads(i) == { i + k : k \in 0..63 }

\* copy_nonoverlapping(input.as_ptr().add(i), block.as_mut_ptr(), rem)
tail_reads(i, rem) == { i + k : k \in 0..(rem - 1) }

tail_writes(rem) == { k : k \in 0..(rem - 1) }

\* copy_nonoverlapping(len_bytes.as_ptr(), block.as_mut_ptr().add(56), 8)
length_writes == { 56 + k : k \in 0..7 }

\* read_unaligned(block.as_ptr().add(i * 4) as *const u32) for i in 0..16
parse_reads == { i * 4 + k : i \in 0..15, k \in 0..3 }

\* w.get_unchecked(..) and w.get_unchecked_mut(..) of round i
schedule_indices(i) ==
    IF i >= 16
    THEN {and15(i - 16), and15(i - 15), and15(i - 7), and15(i - 2), and15(i)}
    ELSE {and15(i)}

\* No step changes the input of a call.
InputKept == \A p \in DOMAIN sha : sha'[p].input = sha[p].input

\* C18: every access made without a bounds check is in bounds.  In the
\* loop i is a multiple of 64, at most L, and a block is read at i only with
\* i + 64 <= L; after the loop rem = L - i is in 0..63, the copy of the tail
\* reads inside the input and the 0x80 goes to index rem of the block; the
\* length goes to bytes 56..63 of the block; the words are read from bytes
\* 0..63 of the block; in every round the schedule indices are in 0..15 and
\* the index of K256 in 0..63; and the input is never changed.
C18_InBounds ==
    /\ [](\A p \in DOMAIN sha :
            LET c == sha[p] IN
            /\ c.len = Cardinality(DOMAIN c.input) /\ DOMAIN c.input = 0..(c.len - 1)
            /\ c.i % 64 = 0 /\ c.i >= 0 /\ c.i <= c.len
            /\ (c.pc = "loop" /\ c.i + 64 <= c.len) =>
                  full_block_reads(c.i) \subseteq DOMAIN c.input
            /\ (c.pc = "rounds" /\ c.ret = "loop") =>
                  c.i + 64 <= c.len /\ full_block_reads(c.i) \subseteq DOMAIN c.input
            /\ (c.pc = "loop" /\ ~(c.i + 64 <= c.len)) =>
                  LET rem == c.len - c.i IN
                  /\ rem \in 0..63
                  /\ tail_reads(c.i, rem) \subseteq DOMAIN c.input
                  /\ tail_writes(rem) \cup {rem} \subseteq DOMAIN c.block
            /\ (c.pc \in {"length", "done"} \/ (c.pc = "rounds" /\ c.ret # "loop")) =>
                  c.rem = c.len - c.i /\ c.rem \in 0..63
            /\ c.pc = "length" => length_writes \subseteq DOMAIN c.block
            /\ c.pc = "rounds" =>
                  /\ parse_reads \subseteq DOMAIN c.cblock
                  /\ c.round \in 0..64
                  /\ c.round < 64 =>
                        /\ schedule_indices(c.round) \subseteq DOMAIN c.w
                        /\ DOMAIN c.w = 0..15
                        /\ c.round \in DOMAIN K256)
    /\ [][InputKept]_vars

\* Round 63 of the block of the tail of an input of 119 bytes: rem = 55, the
\* 0x80 at index 55 next to the length.
C18_Witness ==
    \E p \in DOMAIN sha :
        /\ sha[p].len = 119 /\ sha[p].i = 64 /\ sha[p].rem = 55
        /\ sha[p].pc = "rounds" /\ sha[p].round = 63
        /\ sha[p].cblock[55] = 128
        /\ schedule_indices(63) = {15, 0, 8, 13}

\* The message schedule of FIPS 180-4 for the 16 words m of a block, up to
\* word last >= 15: W[t] = m[t] for t < 16, and
\* W[t] = sigma1(W[t-2]) + W[t-7] + sigma0(W[t-15]) + W[t-16] after.
RECURSIVE FipsExtend(_, _, _)
FipsExtend(W, t, last) ==
    IF t > last THEN W
    ELSE LET x == wrapping_add(wrapping_add(small_sigma1(W[t - 2]), W[t - 7]),
                               wrapping_add(small_sigma0(W[t - 15]), W[t - 16]))
             n == [j \in 0..t |-> IF j = t THEN x ELSE W[j]]
         IN  IF n = n THEN FipsExtend(n, t + 1, last) ELSE W

FipsW(m, last) == FipsExtend(m, 16, last)

Max(x, y) == IF x >= y THEN x ELSE y

\* The step is round i of call p.
IsRound(p, i) ==
    /\ sha[p].pc = "rounds" /\ sha[p].round = i
    /\ sha'[p].pc = "rounds" /\ sha'[p].round = i + 1

\* C19: at the start of round i of the loop all_rounds (and after round 63)
\* slot j mod 16 of the buffer holds W[j] for max(0, i-16) <= j < max(16, i);
\* for i >= 16 the four slots read hold W[i-16], W[i-15], W[i-7], W[i-2];
\* round i changes slot i mod 16 only, which held W[i-16], and leaves W[i]
\* there; and the new a and e are those of the round of FIPS 180-4 with the
\* word W[i].
C19_CircularSchedule ==
    /\ [](\A p \in DOMAIN sha :
            LET c == sha[p]
                i == c.round
                W == FipsW(parse_block(c.cblock), Max(15, i - 1))
            IN  c.pc = "rounds" =>
                  /\ \A j \in Max(0, i - 16)..(Max(16, i) - 1) : c.w[j % 16] = W[j]
                  /\ (16 <= i /\ i < 64) =>
                        /\ c.w[(i - 16) % 16] = W[i - 16]
                        /\ c.w[(i - 15) % 16] = W[i - 15]
                        /\ c.w[(i - 7) % 16] = W[i - 7]
                        /\ c.w[(i - 2) % 16] = W[i - 2])
    /\ [][\A p \in DOMAIN sha : \A i \in 0..63 :
            IsRound(p, i) =>
                LET c  == sha[p]
                    W  == FipsW(parse_block(c.cblock), Max(15, i))
                    t1 == wrapping_add(wrapping_add(wrapping_add(wrapping_add(
                              c.h, big_sigma1(c.e)), ch(c.e, c.f, c.g)), K256[i]), W[i])
                    t2 == wrapping_add(big_sigma0(c.a), maj(c.a, c.b, c.c))
                IN  /\ \A k \in 0..15 : k # i % 16 => sha'[p].w[k] = c.w[k]
                    /\ sha'[p].w[i % 16] = W[i]
                    /\ sha'[p].a = wrapping_add(t1, t2)
                    /\ sha'[p].e = wrapping_add(c.d, t1)]_vars

\* The start of round 40 of the second block of an input of 64 bytes: slot 8
\* holds a word other than the one the block had there.
C19_Witness ==
    \E p \in DOMAIN sha :
        /\ sha[p].len = 64 /\ sha[p].ncompress = 2
        /\ sha[p].pc = "rounds" /\ sha[p].round = 40
        /\ sha[p].w[8] # parse_block(sha[p].cblock)[8]
        /\ sha[p].w[8] = FipsW(parse_block(sha[p].cblock), 39)[24]

====
